---- MODULE Spec2Model ----
(***************************************************************************)
(* Clip-and-publish job pipeline of Yomistream.                            *)
(*                                                                         *)
(* Spec      : ClipperService (Backend/app/services/clipper/service.py)    *)
(*             behind the endpoints of Backend/app/api/clip.py.            *)
(* SpecMain  : the in-memory pipeline merged into Backend/app/main.py.     *)
(*                                                                         *)
(* update_job_status of ClipperService is modelled statement by statement  *)
(* (read, insert, update, re-read): the endpoints of api/clip.py are sync  *)
(* functions which the framework runs on worker threads, so a delete can   *)
(* land between any two statements of an orchestrator running on the event *)
(* loop.                                                                   *)
(***************************************************************************)
EXTENDS Integers, Sequences, FiniteSets, TLC

VARIABLES
    store,      \* the jobs table / jobs dict: job_id -> row, present ids only
    run,        \* per job: position and locals of its process_clip_job run
    request,    \* per job: the ClipRequest fields the orchestrator reads
    files,      \* per job: which of its working files exist on disk
    webhooks,   \* per job: the HTTP POSTs attempted by send_webhook, in order
    reply,      \* the last answer of an HTTP endpoint
    deleted,    \* job ids for which a Delete request has been answered
    clock       \* wall clock read by datetime.utcnow() / datetime.now()

vars == <<store, run, request, files, webhooks, reply, deleted, clock>>

----------------------------------------------------------------------------
(* Bounds *)

MaxClock == 1          \* ticks of the wall clock
MaxChunks == 1         \* progress reports of one resumable upload

JobIds == {"j1"}
Percents == {50}       \* int(status.progress() * 100) values reported

(* Program constants *)

NumStrategies == 3     \* len(strategies) in ClipperService.download_video

NULL == "NULL"         \* Python None / SQL NULL

TerminalStatuses == {"completed", "failed"}
SpecStatuses ==
    {"pending", "downloading", "trimming", "uploading", "completed", "failed"}

----------------------------------------------------------------------------
(* Conversions *)

\* datetime.utcnow().isoformat()
IsoFormat(t) == "T" \o ToString(t)

\* f"https://youtube.com/watch?v={video_id}"; a None id formats as "None"
VideoUrl(video_id) ==
    "https://youtube.com/watch?v="
        \o (IF video_id = NULL THEN "None" ELSE video_id)

\* f"Uploading... {progress}%"
UploadingProgress(p) == "Uploading... " \o ToString(p) \o "%"

\* f"Trying download strategy {i}..."
TryingStrategy(i) == "Trying download strategy " \o ToString(i) \o "..."

\* f"Strategy {i} failed with return code {process.returncode}: ..."
StrategyFailedCode(i) ==
    "Strategy " \o ToString(i) \o " failed with return code 1: stderr"

\* f"Strategy {i} failed with exception: {str(e)}"
StrategyFailedExc(i) ==
    "Strategy " \o ToString(i) \o " failed with exception: e"

----------------------------------------------------------------------------
(* Job store of ClipperService: the sqlite table jobs *)

\* INSERT INTO jobs (job_id, status, progress, created_at) VALUES (...)
NewJobRow(job_id, now) ==
    [job_id |-> job_id, status |-> "pending", progress |-> "0%",
     video_id |-> NULL, video_url |-> NULL, error |-> NULL,
     created_at |-> IsoFormat(now), completed_at |-> NULL]

_create_job_record(st, job_id, now) == (job_id :> NewJobRow(job_id, now)) @@ st

UpdateRowCompletedOnly(row, a, now) ==
    [row EXCEPT
        !.status = IF a.status # NULL THEN a.status ELSE @,
        !.progress = IF a.progress # NULL THEN a.progress ELSE @,
        !.video_id = IF a.video_id # NULL THEN a.video_id ELSE @,
        !.video_url = IF a.video_url # NULL THEN a.video_url ELSE @,
        !.error = IF a.error # NULL THEN a.error ELSE @,
        !.completed_at =
            IF a.status = "completed" THEN IsoFormat(now) ELSE @]

UpdateRowNoError(row, a, now) ==
    [row EXCEPT
        !.status = IF a.status # NULL THEN a.status ELSE @,
        !.progress = IF a.progress # NULL THEN a.progress ELSE @,
        !.video_id = IF a.video_id # NULL THEN a.video_id ELSE @,
        !.video_url = IF a.video_url # NULL THEN a.video_url ELSE @,
        !.completed_at =
            IF a.status \in TerminalStatuses THEN IsoFormat(now) ELSE @]

UpdateRowOverwrite(row, a, now) ==
    [row EXCEPT
        !.status = a.status, !.progress = a.progress,
        !.video_id = a.video_id, !.video_url = a.video_url,
        !.error = a.error,
        !.completed_at =
            IF a.status \in TerminalStatuses THEN IsoFormat(now) ELSE @]

\* the SET list built by _update_job_record, applied to one row
UpdateRow(row, a, now) ==
    [row EXCEPT
        !.status = IF a.status # NULL THEN a.status ELSE @,
        !.progress = IF a.progress # NULL THEN a.progress ELSE @,
        !.video_id = IF a.video_id # NULL THEN a.video_id ELSE @,
        !.video_url = IF a.video_url # NULL THEN a.video_url ELSE @,
        !.error = IF a.error # NULL THEN a.error ELSE @,
        !.completed_at =
            IF a.status \in TerminalStatuses THEN IsoFormat(now) ELSE @]

\* the UPDATE without its WHERE clause
UpdateEveryRow(st, job_id, a, now) ==
    IF job_id \in DOMAIN st
    THEN [k \in DOMAIN st |-> UpdateRow(st[k], a, now)]
    ELSE st

\* UPDATE jobs SET ... WHERE job_id = :job_id  (no row: nothing changes)
_update_job_record(st, job_id, a, now) ==
    IF job_id \in DOMAIN st
    THEN [st EXCEPT ![job_id] = UpdateRow(st[job_id], a, now)]
    ELSE st

\* SELECT * FROM jobs WHERE job_id = ?  (None when there is no row)
_get_job_record(st, job_id) ==
    IF job_id \in DOMAIN st THEN st[job_id] ELSE [job_id |-> NULL]

\* "job is None" / "if row" tests on the result of the SELECT
HasRecord(st, job_id) == _get_job_record(st, job_id).job_id # NULL

\* DELETE FROM jobs WHERE job_id = ?
DeleteRow(st, job_id) == [k \in DOMAIN st \ {job_id} |-> st[k]]

\* ClipperService.delete_job: True when a row was deleted
delete_job(st, job_id) == job_id \in DOMAIN st

----------------------------------------------------------------------------
(* ClipperService.process_clip_job: positions and locals of one run *)

\* positions "Lnnn" are the update_job_status calls at service.py line nnn
CallSites ==
    {"L436", "L261", "L303", "L314", "L320", "L329", "L340", "L364", "L367",
     "L373", "L379", "L408", "L413", "L426", "L431", "L491"}

IdleRun ==
    [pc |-> "idle", ujs |-> "none", i |-> 0, percent |-> 0, chunks |-> 0,
     error_msg |-> NULL, video_id |-> NULL, ret |-> "none",
     stages |-> <<>>, failed |-> {}, attempts |-> <<>>, toolfail |-> FALSE,
     submit_created_at |-> NULL, thumb_bytes |-> FALSE, written |-> NULL,
     exit0 |-> FALSE]

NoWebhook == [configured |-> FALSE, events |-> {}]
WebhookChoices ==
    {NoWebhook,
     [configured |-> TRUE, events |-> {"completed", "failed"}],
     [configured |-> TRUE, events |-> {"failed"}]}

Goto(r, l) ==
    [r EXCEPT !.pc = l, !.ujs = IF l \in CallSites THEN "get" ELSE "none"]

NoArgs ==
    [status |-> NULL, progress |-> NULL, video_id |-> NULL,
     video_url |-> NULL, error |-> NULL]

\* arguments of the update_job_status calls of download_video
DownloadArgs(r) ==
    CASE r.pc = "L261" ->
            [NoArgs EXCEPT !.status = "downloading",
                           !.progress = "Starting download..."]
      [] r.pc = "L303" ->
            [NoArgs EXCEPT !.status = "downloading",
                           !.progress = TryingStrategy(r.i)]
      [] r.pc = "L314" ->
            [NoArgs EXCEPT !.status = "downloading",
                           !.progress = "Download completed"]
      [] r.pc \in {"L320", "L329"} ->
            [NoArgs EXCEPT !.status = "failed",
                           !.progress = "All download strategies failed",
                           !.error = r.error_msg]

TrimArgsTypo(r) ==
    CASE r.pc = "L340" ->
            [NoArgs EXCEPT !.status = "trimming",
                           !.progress = "Starting video trimming..."]
      [] r.pc = "L364" ->
            [NoArgs EXCEPT !.status = "failed",
                           !.progress = "Trimming failed",
                           !.error = r.error_msg]
      [] r.pc = "L367" ->
            [NoArgs EXCEPT !.status = "trimmed",
                           !.progress = "Video trimming completed"]
      [] r.pc = "L373" ->
            [NoArgs EXCEPT !.status = "failed",
                           !.progress = "Trimming error",
                           !.error = r.error_msg]

\* arguments of the update_job_status calls of trim_video
TrimArgs(r) ==
    CASE r.pc = "L340" ->
            [NoArgs EXCEPT !.status = "trimming",
                           !.progress = "Starting video trimming..."]
      [] r.pc = "L364" ->
            [NoArgs EXCEPT !.status = "failed",
                           !.progress = "Trimming failed",
                           !.error = r.error_msg]
      [] r.pc = "L367" ->
            [NoArgs EXCEPT !.status = "trimming",
                           !.progress = "Video trimming completed"]
      [] r.pc = "L373" ->
            [NoArgs EXCEPT !.status = "failed",
                           !.progress = "Trimming error",
                           !.error = r.error_msg]

UploadArgsProcessing(r) ==
    CASE r.pc = "L379" ->
            [NoArgs EXCEPT !.status = "uploading",
                           !.progress = "Starting video upload..."]
      [] r.pc = "L408" ->
            [NoArgs EXCEPT !.status = "processing",
                           !.progress = UploadingProgress(r.percent)]
      [] r.pc = "L413" ->
            [NoArgs EXCEPT !.status = "completed",
                           !.progress = "Upload completed",
                           !.video_id = r.video_id,
                           !.video_url = VideoUrl(r.video_id)]
      [] r.pc = "L426" ->
            [NoArgs EXCEPT !.status = "failed",
                           !.progress = "Upload failed",
                           !.error = r.error_msg]
      [] r.pc = "L431" ->
            [NoArgs EXCEPT !.status = "failed",
                           !.progress = "Upload error",
                           !.error = r.error_msg]

\* arguments of the update_job_status calls of upload_video
UploadArgs(r) ==
    CASE r.pc = "L379" ->
            [NoArgs EXCEPT !.status = "uploading",
                           !.progress = "Starting video upload..."]
      [] r.pc = "L408" ->
            [NoArgs EXCEPT !.status = "uploading",
                           !.progress = UploadingProgress(r.percent)]
      [] r.pc = "L413" ->
            [NoArgs EXCEPT !.status = "completed",
                           !.progress = "Upload completed",
                           !.video_id = r.video_id,
                           !.video_url = VideoUrl(r.video_id)]
      [] r.pc = "L426" ->
            [NoArgs EXCEPT !.status = "failed",
                           !.progress = "Upload failed",
                           !.error = r.error_msg]
      [] r.pc = "L431" ->
            [NoArgs EXCEPT !.status = "failed",
                           !.progress = "Upload error",
                           !.error = r.error_msg]

\* arguments of the update_job_status calls of process_clip_job itself
ProcessArgs(r) ==
    CASE r.pc = "L436" ->
            [NoArgs EXCEPT !.status = "processing",
                           !.progress = "Starting job..."]
      [] r.pc = "L491" ->
            [NoArgs EXCEPT !.status = "failed",
                           !.progress = "Processing failed",
                           !.error = r.error_msg]

\* the arguments of the update_job_status call at each call site
Args(r) ==
    CASE r.pc \in {"L261", "L303", "L314", "L320", "L329"} -> DownloadArgs(r)
      [] r.pc \in {"L340", "L364", "L367", "L373"} -> TrimArgs(r)
      [] r.pc \in {"L379", "L408", "L413", "L426", "L431"} -> UploadArgs(r)
      [] r.pc \in {"L436", "L491"} -> ProcessArgs(r)

ReturnNoFinally(r, value) ==
    Goto([r EXCEPT !.ret = value], IF value = "False" THEN "done" ELSE "finally")

\* process_clip_job returns: the finally clause runs, then the run is over
Return(r, value) == Goto([r EXCEPT !.ret = value], "finally")

StageFailedIgnored(r, stage) ==
    IF stage = "download"
    THEN Goto([r EXCEPT !.failed = @ \cup {stage},
                        !.stages = Append(@, "trim")], "L340")
    ELSE Return([r EXCEPT !.failed = @ \cup {stage}], "False")

\* a stage method returned False / None: process_clip_job returns False
StageFailed(r, stage) ==
    Return([r EXCEPT !.failed = @ \cup {stage}], "False")

ProcessExceptNotifyFirst(r, stage) ==
    Goto([r EXCEPT !.error_msg = "Unexpected error: e",
                   !.failed = @ \cup stage], "webhook_failed")

\* except Exception of process_clip_job (lines 488-491)
ProcessExcept(r, stage) ==
    Goto([r EXCEPT !.error_msg = "Unexpected error: e",
                   !.failed = @ \cup stage], "L491")

NextStrategyNoReport(r, msg, reportAt) ==
    IF r.i = NumStrategies
    THEN StageFailed([r EXCEPT !.error_msg = msg], "download")
    ELSE Goto([r EXCEPT !.error_msg = msg, !.i = r.i + 1], "L303")

\* a strategy did not succeed: last one reports, the others fall through
NextStrategy(r, msg, reportAt) ==
    IF r.i = NumStrategies
    THEN Goto([r EXCEPT !.error_msg = msg], reportAt)
    ELSE Goto([r EXCEPT !.error_msg = msg, !.i = r.i + 1], "L303")

\* lines 316-323: non-zero return code of strategy i
StrategyNonZero(r) == NextStrategy(r, StrategyFailedCode(r.i), "L320")

\* lines 325-332: except Exception inside the strategy loop
StrategyExcept(r) == NextStrategy(r, StrategyFailedExc(r.i), "L329")

\* lines 370-373: except Exception of trim_video
TrimExcept(r) == Goto([r EXCEPT !.error_msg = "Error during trimming: e"], "L373")

\* lines 423-426: except HttpError of upload_video
UploadHttpError(r) == Goto([r EXCEPT !.error_msg = "YouTube API error: e"], "L426")

\* lines 428-431: except Exception of upload_video
UploadExcept(r) == Goto([r EXCEPT !.error_msg = "Error during upload: e"], "L431")

AfterUploadRaise(r, req) ==
    IF r.video_id = NULL THEN ProcessExcept(r, {"upload"})
    ELSE IF req.configured THEN Goto(r, "webhook_completed")
    ELSE Return(r, "True")

\* lines 471-486: after upload_video returned video_id
AfterUpload(r, req) ==
    IF r.video_id = NULL THEN Return(r, "False")
    ELSE IF req.configured THEN Goto(r, "webhook_completed")
    ELSE Return(r, "True")

AfterWebhookRaise(r, ok, value) ==
    IF ok \/ value # "True" THEN Return(r, value) ELSE ProcessExcept(r, {})

\* send_webhook answered True or False (it catches every exception, lines
\* 191-193); its caller ignores the answer and returns (lines 484-486,
\* 502-504)
AfterWebhook(r, ok, value) == Return(r, value)

\* where control goes when the update_job_status call at r.pc returns
Returned(r, req) ==
    CASE r.pc = "L436" ->
            Goto([r EXCEPT !.stages = Append(@, "download")], "L261")
      [] r.pc = "L261" -> Goto([r EXCEPT !.i = 1], "L303")
      [] r.pc = "L303" -> Goto(r, "exec_download")
      [] r.pc = "L314" ->
            Goto([r EXCEPT !.stages = Append(@, "trim")], "L340")
      [] r.pc \in {"L320", "L329"} -> StageFailed(r, "download")
      [] r.pc = "L340" -> Goto(r, "exec_trim")
      [] r.pc \in {"L364", "L373"} -> StageFailed(r, "trim")
      [] r.pc = "L367" -> Goto(r, "get_youtube_service")
      [] r.pc \in {"L379", "L408"} -> Goto(r, "next_chunk")
      [] r.pc = "L413" -> AfterUpload(r, req)
      [] r.pc \in {"L426", "L431"} -> StageFailed(r, "upload")
      [] r.pc = "L491" ->
            IF req.configured THEN Goto(r, "webhook_failed")
            ELSE Return(r, "False")

\* where control goes when the update_job_status call at r.pc raises
Raised(r) ==
    CASE r.pc = "L436" -> Goto([r EXCEPT !.ret = "raised"], "done")
      [] r.pc \in {"L261", "L329"} -> ProcessExcept(r, {"download"})
      [] r.pc \in {"L303", "L314", "L320"} -> StrategyExcept(r)
      [] r.pc \in {"L340", "L373"} -> ProcessExcept(r, {"trim"})
      [] r.pc \in {"L364", "L367"} -> TrimExcept(r)
      [] r.pc \in {"L379", "L426", "L431"} -> ProcessExcept(r, {"upload"})
      [] r.pc \in {"L408", "L413"} -> UploadExcept(r)
      [] r.pc = "L491" -> Return(r, "raised")

----------------------------------------------------------------------------
(* Updates of one job's entry in the per-job variables *)

SetRun(j, r) == run' = [run EXCEPT ![j] = r]

\* history: strategy r.i was handed to the external download tool
Attempted(r) == [r EXCEPT !.attempts = Append(@, r.i)]

\* history: the created_at of the JobStatus that Submit answered
Submitted(r, created_at) == [r EXCEPT !.submit_created_at = created_at]

\* history: the status this run wrote last to its job's row; an UPDATE
\* that finds no row writes nothing
Wrote(r, st, job_id, status) ==
    IF job_id \in DOMAIN st THEN [r EXCEPT !.written = status] ELSE r

\* history: a download strategy of this run exited with return code 0
ExitedOk(r) == [r EXCEPT !.exit0 = TRUE]

\* history: an external invocation of this run did not succeed
ToolFailed(r) == [r EXCEPT !.toolfail = TRUE]

\* cleanup_files(*files): os.remove each file that exists; a name that
\* was never created is skipped.  The file system is taken to honour
\* os.remove (its errors are logged and swallowed, lines 233-234).
cleanup_files(fs, names) == fs \ names

\* one POST attempted by send_webhook, with its outcome
Delivery(event, ok) == [event |-> event, ok |-> ok]

\* ClipperService.send_webhook: posts whatever the event is
send_webhook(log, cfg, event, ok) == Append(log, Delivery(event, ok))

\* ClipperService.get_job_status, as answered by the endpoint
GetReply(st, j) ==
    IF HasRecord(st, j)
    THEN [op |-> "get_job_status", job_id |-> j, code |-> 200,
          status |-> st[j].status, created_at |-> st[j].created_at]
    ELSE [op |-> "get_job_status", job_id |-> j, code |-> 404,
          status |-> NULL, created_at |-> NULL]

\* what a test-webhook endpoint answered, with the POSTs it made
TestReply(code, success, posts) ==
    [op |-> "test_webhook", job_id |-> NULL, code |-> code, status |-> NULL,
     created_at |-> NULL, success |-> success, posts |-> posts]

\* the configurations a request can carry
WebhookConfigs == WebhookChoices \ {NoWebhook}

----------------------------------------------------------------------------
(* Endpoints of api/clip.py *)

\* POST /clip: schedules the background task and answers pending; no row
create_clip(j) ==
    /\ run[j].pc = "idle"
    /\ \E w \in WebhookChoices : request' = [request EXCEPT ![j] = w]
    /\ SetRun(j, Goto(Submitted(run[j], IsoFormat(clock)), "scheduled"))
    /\ reply' = [op |-> "create_clip", job_id |-> j, code |-> 200,
                 status |-> "pending", created_at |-> IsoFormat(clock)]
    /\ UNCHANGED <<store, files, webhooks, deleted, clock>>

\* GET /clip/job/{job_id}
get_job_status(j) ==
    /\ run[j].pc # "idle"
    /\ reply' = GetReply(store, j)
    /\ UNCHANGED <<store, run, request, files, webhooks, deleted, clock>>

\* DELETE /clip/job/{job_id}
delete_job_endpoint(j) ==
    /\ run[j].pc # "idle"
    /\ store' = DeleteRow(store, j)
    /\ reply' = [op |-> "delete_job", job_id |-> j,
                 code |-> IF delete_job(store, j) THEN 200 ELSE 404,
                 status |-> NULL, created_at |-> NULL]
    /\ deleted' = deleted \cup {j}
    /\ UNCHANGED <<run, request, files, webhooks, clock>>

----------------------------------------------------------------------------
(* ClipperService.update_job_status, one statement per step *)

\* line 200: job = self._get_job_record(job_id)
update_job_status_get(j) ==
    /\ run[j].ujs = "get"
    /\ SetRun(j, [run[j] EXCEPT !.ujs =
            IF HasRecord(store, j) THEN "update" ELSE "create"])
    /\ UNCHANGED <<store, request, files, webhooks, reply, deleted, clock>>

\* line 204: self._create_job_record(job_id); a duplicate key raises
update_job_status_create(j) ==
    /\ run[j].ujs = "create"
    /\ IF HasRecord(store, j)
       THEN /\ SetRun(j, Raised(run[j]))
            /\ UNCHANGED store
       ELSE /\ store' = _create_job_record(store, j, clock)
            /\ SetRun(j, [run[j] EXCEPT !.ujs = "update"])
    /\ UNCHANGED <<request, files, webhooks, reply, deleted, clock>>

\* lines 210-217: self._update_job_record(...)
update_job_status_update(j) ==
    /\ run[j].ujs = "update"
    /\ store' = _update_job_record(store, j, Args(run[j]), clock)
    /\ SetRun(j, [Wrote(run[j], store, j, Args(run[j]).status) EXCEPT
                        !.ujs = "reget"])
    /\ UNCHANGED <<request, files, webhooks, reply, deleted, clock>>

\* lines 220-224: re-read; raise ValueError when the row is gone
update_job_status_return(j) ==
    /\ run[j].ujs = "reget"
    /\ SetRun(j, IF HasRecord(store, j)
                 THEN Returned(run[j], request[j])
                 ELSE Raised(run[j]))
    /\ UNCHANGED <<store, request, files, webhooks, reply, deleted, clock>>

----------------------------------------------------------------------------
(* ClipperService.process_clip_job and its stages *)

\* POST /clip/webhook/test of api/clip.py (lines 116-133): event "test",
\* answers what send_webhook returned
test_webhook ==
    /\ \E cfg \in WebhookConfigs, ok \in BOOLEAN :
          reply' = TestReply(200, ok, send_webhook(<<>>, cfg, "test", ok))
    /\ UNCHANGED <<store, run, request, files, webhooks, deleted, clock>>

\* POST /test-webhook of routes/clipper.py (lines 113-137): event "test",
\* 400 when send_webhook returned False
routes_test_webhook ==
    /\ \E cfg \in WebhookConfigs, ok \in BOOLEAN :
          reply' = TestReply(IF ok THEN 200 ELSE 400, ok,
                             send_webhook(<<>>, cfg, "test", ok))
    /\ UNCHANGED <<store, run, request, files, webhooks, deleted, clock>>

\* the background task starts: line 436 is its first statement
StartTask(j) ==
    /\ run[j].pc = "scheduled"
    /\ SetRun(j, Goto(run[j], "L436"))
    /\ UNCHANGED <<store, request, files, webhooks, reply, deleted, clock>>

\* download_video lines 305-323: run strategy i
exec_download(j) ==
    /\ run[j].pc = "exec_download"
    /\ \/ /\ SetRun(j, Goto(ExitedOk(Attempted(run[j])), "L314"))
          /\ files' = [files EXCEPT ![j] = @ \cup {"download_path"}]
       \/ /\ SetRun(j, StrategyNonZero(ToolFailed(Attempted(run[j]))))
          /\ UNCHANGED files
       \/ /\ SetRun(j, StrategyExcept(ToolFailed(Attempted(run[j]))))
          /\ UNCHANGED files
    /\ UNCHANGED <<store, request, webhooks, reply, deleted, clock>>

\* trim_video lines 342-365: run ffmpeg
exec_trim(j) ==
    /\ run[j].pc = "exec_trim"
    /\ \/ /\ SetRun(j, Goto(run[j], "L367"))
          /\ files' = [files EXCEPT ![j] = @ \cup {"output_path"}]
       \/ /\ SetRun(j, Goto([ToolFailed(run[j]) EXCEPT !.error_msg =
                    "Trimming failed with return code 1: stderr"], "L364"))
          /\ \E partial \in SUBSET {"output_path"} :
                files' = [files EXCEPT ![j] = @ \cup partial]
       \/ /\ SetRun(j, TrimExcept(ToolFailed(run[j])))
          /\ UNCHANGED files
    /\ UNCHANGED <<store, request, webhooks, reply, deleted, clock>>

\* line 459: youtube = self.get_youtube_service()
get_youtube_service(j) ==
    /\ run[j].pc = "get_youtube_service"
    /\ \/ SetRun(j, Goto([run[j] EXCEPT !.stages = Append(@, "upload")],
                         "L379"))
       \/ SetRun(j, ProcessExcept(ToolFailed(run[j]), {}))
    /\ UNCHANGED <<store, request, files, webhooks, reply, deleted, clock>>

\* upload_video lines 404-411: one request.next_chunk()
next_chunk(j) ==
    /\ run[j].pc = "next_chunk"
    /\ \/ /\ run[j].chunks < MaxChunks
          /\ \E p \in Percents :
                SetRun(j, Goto([run[j] EXCEPT !.percent = p,
                                              !.chunks = @ + 1], "L408"))
       \/ SetRun(j, Goto([run[j] EXCEPT !.video_id = "vid"], "L413"))
       \/ SetRun(j, Goto(ToolFailed(run[j]), "L413"))
       \/ SetRun(j, UploadHttpError(ToolFailed(run[j])))
       \/ SetRun(j, UploadExcept(ToolFailed(run[j])))
    /\ UNCHANGED <<store, request, files, webhooks, reply, deleted, clock>>

\* lines 475-486: completed webhook, then return True
webhook_completed(j) ==
    /\ run[j].pc = "webhook_completed"
    /\ \E ok \in BOOLEAN :
          /\ webhooks' = [webhooks EXCEPT
                            ![j] = send_webhook(@, request[j], "completed", ok)]
          /\ SetRun(j, AfterWebhook(run[j], ok, "True"))
    /\ UNCHANGED <<store, request, files, reply, deleted, clock>>

\* lines 494-504: failed webhook, then return False
webhook_failed(j) ==
    /\ run[j].pc = "webhook_failed"
    /\ \E ok \in BOOLEAN :
          /\ webhooks' = [webhooks EXCEPT
                            ![j] = send_webhook(@, request[j], "failed", ok)]
          /\ SetRun(j, AfterWebhook(run[j], ok, "False"))
    /\ UNCHANGED <<store, request, files, reply, deleted, clock>>

\* lines 506-508: finally: self.cleanup_files(download_path, output_path)
finally_cleanup(j) ==
    /\ run[j].pc = "finally"
    /\ files' = [files EXCEPT
                    ![j] = cleanup_files(@, {"download_path", "output_path"})]
    /\ SetRun(j, Goto(run[j], "done"))
    /\ UNCHANGED <<store, request, webhooks, reply, deleted, clock>>

\* time passes
Tick ==
    /\ clock < MaxClock
    /\ clock' = clock + 1
    /\ UNCHANGED <<store, run, request, files, webhooks, reply, deleted>>

----------------------------------------------------------------------------
NoReply ==
    [op |-> "none", job_id |-> NULL, code |-> 0, status |-> NULL,
     created_at |-> NULL]

Init ==
    /\ store = <<>>
    /\ run = [j \in JobIds |-> IdleRun]
    /\ request = [j \in JobIds |-> NoWebhook]
    /\ files = [j \in JobIds |-> {}]
    /\ webhooks = [j \in JobIds |-> <<>>]
    /\ reply = NoReply
    /\ deleted = {}
    /\ clock = 0

Next ==
    \/ Tick
    \/ \E j \in JobIds : create_clip(j)
    \/ \E j \in JobIds : get_job_status(j)
    \/ \E j \in JobIds : delete_job_endpoint(j)
    \/ \E j \in JobIds : StartTask(j)
    \/ \E j \in JobIds : update_job_status_get(j)
    \/ \E j \in JobIds : update_job_status_create(j)
    \/ \E j \in JobIds : update_job_status_update(j)
    \/ \E j \in JobIds : update_job_status_return(j)
    \/ \E j \in JobIds : exec_download(j)
    \/ \E j \in JobIds : exec_trim(j)
    \/ \E j \in JobIds : get_youtube_service(j)
    \/ \E j \in JobIds : next_chunk(j)
    \/ \E j \in JobIds : webhook_completed(j)
    \/ \E j \in JobIds : webhook_failed(j)
    \/ \E j \in JobIds : finally_cleanup(j)

Spec == Init /\ [][Next]_vars

----------------------------------------------------------------------------
(* The in-memory pipeline of main.py: jobs dict, positions "Mnnn" are the   *)
(* update_job_status calls at main.py line nnn.  Its functions are          *)
(* synchronous, so each call is one step; delete_job runs on a worker      *)
(* thread and can land between any two of them.                            *)

MainCallSites == {"M181", "M196", "M213", "M237", "M259", "M274"}

\* the dict stored by create_clip (lines 314-323)
MainNewJob(job_id, now) ==
    [job_id |-> job_id, status |-> "pending", progress |-> "Job created",
     video_id |-> NULL, video_url |-> NULL, error |-> NULL,
     created_at |-> IsoFormat(now), completed_at |-> NULL]

\* update_job_status of main.py (lines 136-147) on an existing entry;
\* video_id and error default to the empty string
MainUpdateRow(row, status, progress, video_id, error, now) ==
    [row EXCEPT
        !.status = status,
        !.progress = progress,
        !.video_id = video_id,
        !.error = error,
        !.completed_at =
            IF status \in TerminalStatuses THEN IsoFormat(now) ELSE @,
        !.video_url = IF video_id # "" THEN VideoUrl(video_id) ELSE @]

\* the row written by the update_job_status call at r.pc
MainUpdated(row, r, now) ==
    CASE r.pc = "M181" ->
            MainUpdateRow(row, "processing", "Downloading video...", "", "", now)
      [] r.pc = "M196" ->
            MainUpdateRow(row, "processing", "Trimming video...", "", "", now)
      [] r.pc = "M213" ->
            MainUpdateRow(row, "processing", "Uploading to YouTube...", "", "", now)
      [] r.pc = "M237" ->
            MainUpdateRow(row, "processing",
                          "Uploading: " \o ToString(r.percent) \o "%", "", "", now)
      [] r.pc = "M259" ->
            MainUpdateRow(row, "completed", "Upload successful!",
                          r.video_id, "", now)
      [] r.pc = "M274" ->
            MainUpdateRow(row, "failed", "Error occurred", "", r.error_msg, now)

MainGoto(r, l) == [r EXCEPT !.pc = l]

\* except Exception of process_clip_job (lines 272-275): error_msg = str(e)
MainExcept(r, msg, stage) ==
    MainGoto([r EXCEPT !.error_msg = msg, !.failed = @ \cup stage], "M274")

\* where control goes when the update_job_status call at r.pc returns
MainReturned(r, req) ==
    CASE r.pc = "M181" -> MainGoto(r, "main_exec_download")
      [] r.pc = "M196" -> MainGoto(r, "main_exec_trim")
      [] r.pc \in {"M213", "M237"} -> MainGoto(r, "main_next_chunk")
      [] r.pc = "M259" ->
            IF req.configured THEN MainGoto(r, "main_webhook_completed")
            ELSE MainGoto([r EXCEPT !.ret = "None"], "main_finally")
      [] r.pc = "M274" ->
            IF req.configured THEN MainGoto(r, "main_webhook_failed")
            ELSE MainGoto([r EXCEPT !.ret = "None"], "main_finally")

\* where control goes when jobs[job_id] raises KeyError at r.pc
MainRaised(r) ==
    CASE r.pc = "M181" -> MainExcept(r, "'job_id'", {"download"})
      [] r.pc = "M196" -> MainExcept(r, "'job_id'", {"trim"})
      [] r.pc \in {"M213", "M237"} -> MainExcept(r, "'job_id'", {"upload"})
      [] r.pc = "M259" -> MainExcept(r, "'job_id'", {})
      [] r.pc = "M274" -> MainGoto([r EXCEPT !.ret = "raised"], "main_finally")

\* send_webhook of main.py (lines 118-133): no POST for an unsubscribed event
main_send_webhook(log, cfg, event, ok) ==
    IF event \notin cfg.events THEN log ELSE Append(log, Delivery(event, ok))

\* POST /api/clip/ (lines 311-325): stores the job, schedules the task
main_create_clip(j) ==
    /\ run[j].pc = "idle"
    /\ \E w \in WebhookChoices : request' = [request EXCEPT ![j] = w]
    /\ store' = (j :> MainNewJob(j, clock)) @@ store
    /\ SetRun(j, MainGoto(Submitted(run[j], store'[j].created_at),
                          "main_scheduled"))
    /\ reply' = [op |-> "create_clip", job_id |-> j, code |-> 200,
                 status |-> "pending", created_at |-> store'[j].created_at]
    /\ UNCHANGED <<files, webhooks, deleted, clock>>

\* GET /api/clip/job/{job_id} (lines 328-332)
main_get_job_status(j) ==
    /\ run[j].pc # "idle"
    /\ reply' = GetReply(store, j)
    /\ UNCHANGED <<store, run, request, files, webhooks, deleted, clock>>

\* DELETE /api/clip/job/{job_id} (lines 340-345)
main_delete_job(j) ==
    /\ run[j].pc # "idle"
    /\ store' = DeleteRow(store, j)
    /\ reply' = [op |-> "delete_job", job_id |-> j,
                 code |-> IF HasRecord(store, j) THEN 200 ELSE 404,
                 status |-> NULL, created_at |-> NULL]
    /\ deleted' = deleted \cup {j}
    /\ UNCHANGED <<run, request, files, webhooks, clock>>

\* POST /api/clip/webhook/test of main.py (lines 348-367): event
\* "completed"; send_webhook never raises, so the answer is always success
main_test_webhook ==
    /\ \E cfg \in WebhookConfigs, ok \in BOOLEAN :
          reply' = TestReply(200, TRUE,
                             main_send_webhook(<<>>, cfg, "completed", ok))
    /\ UNCHANGED <<store, run, request, files, webhooks, deleted, clock>>

\* the background task starts: download_video is its first call
main_start(j) ==
    /\ run[j].pc = "main_scheduled"
    /\ SetRun(j, MainGoto([run[j] EXCEPT !.stages = Append(@, "download")],
                          "M181"))
    /\ UNCHANGED <<store, request, files, webhooks, reply, deleted, clock>>

\* one call of update_job_status
main_update_job_status(j) ==
    /\ run[j].pc \in MainCallSites
    /\ IF HasRecord(store, j)
       THEN /\ store' = [store EXCEPT
                            ![j] = MainUpdated(store[j], run[j], clock)]
            /\ SetRun(j, MainReturned(
                            Wrote(run[j], store, j, store'[j].status),
                            request[j]))
       ELSE /\ SetRun(j, MainRaised(run[j]))
            /\ UNCHANGED store
    /\ UNCHANGED <<request, files, webhooks, reply, deleted, clock>>

\* download_video lines 182-190, then lines 248-251
main_exec_download(j) ==
    /\ run[j].pc = "main_exec_download"
    /\ \/ /\ SetRun(j, MainGoto([run[j] EXCEPT !.stages = Append(@, "trim")],
                                "M196"))
          /\ files' = [files EXCEPT ![j] = @ \cup {"download_path"}]
       \/ /\ SetRun(j, MainExcept(ToolFailed(run[j]), "Failed to download video",
                                  {"download"}))
          /\ UNCHANGED files
       \/ /\ SetRun(j, MainExcept(ToolFailed(run[j]), "e", {"download"}))
          /\ UNCHANGED files
    /\ UNCHANGED <<store, request, webhooks, reply, deleted, clock>>

\* trim_video lines 197-208, then lines 252-253
main_exec_trim(j) ==
    /\ run[j].pc = "main_exec_trim"
    /\ \/ /\ SetRun(j, MainGoto(run[j], "main_get_youtube_service"))
          /\ files' = [files EXCEPT ![j] = @ \cup {"output_path"}]
       \/ /\ SetRun(j, MainExcept(ToolFailed(run[j]), "Failed to trim video", {"trim"}))
          /\ \E partial \in SUBSET {"output_path"} :
                files' = [files EXCEPT ![j] = @ \cup partial]
       \/ /\ SetRun(j, MainExcept(ToolFailed(run[j]), "e", {"trim"}))
          /\ UNCHANGED files
    /\ UNCHANGED <<store, request, webhooks, reply, deleted, clock>>

\* line 253: youtube = get_youtube_service()
main_get_youtube_service(j) ==
    /\ run[j].pc = "main_get_youtube_service"
    /\ \/ SetRun(j, MainGoto([run[j] EXCEPT !.stages = Append(@, "upload")],
                             "M213"))
       \/ SetRun(j, MainExcept(ToolFailed(run[j]), "Missing client_secret.json file", {}))
    /\ UNCHANGED <<store, request, files, webhooks, reply, deleted, clock>>

\* upload_video lines 233-241, then line 258: video_id = response["id"]
main_next_chunk(j) ==
    /\ run[j].pc = "main_next_chunk"
    /\ \/ /\ run[j].chunks < MaxChunks
          /\ \E p \in Percents :
                SetRun(j, MainGoto([run[j] EXCEPT !.percent = p,
                                                  !.chunks = @ + 1], "M237"))
       \/ SetRun(j, MainGoto([run[j] EXCEPT !.video_id = "vid"], "M259"))
       \/ SetRun(j, MainExcept(ToolFailed(run[j]), "'id'", {"upload"}))
       \/ SetRun(j, MainExcept(ToolFailed(run[j]), "Upload failed: e", {"upload"}))
       \/ SetRun(j, MainExcept(ToolFailed(run[j]), "e", {"upload"}))
    /\ UNCHANGED <<store, request, files, webhooks, reply, deleted, clock>>

\* lines 261-271: completed webhook
main_webhook_completed(j) ==
    /\ run[j].pc = "main_webhook_completed"
    /\ \E ok \in BOOLEAN :
          webhooks' = [webhooks EXCEPT
                ![j] = main_send_webhook(@, request[j], "completed", ok)]
    /\ SetRun(j, MainGoto([run[j] EXCEPT !.ret = "None"], "main_finally"))
    /\ UNCHANGED <<store, request, files, reply, deleted, clock>>

\* lines 276-286: failed webhook
main_webhook_failed(j) ==
    /\ run[j].pc = "main_webhook_failed"
    /\ \E ok \in BOOLEAN :
          webhooks' = [webhooks EXCEPT
                ![j] = main_send_webhook(@, request[j], "failed", ok)]
    /\ SetRun(j, MainGoto([run[j] EXCEPT !.ret = "None"], "main_finally"))
    /\ UNCHANGED <<store, request, files, reply, deleted, clock>>

\* lines 287-288: finally: cleanup_files(temp_video, clipped_video)
main_finally(j) ==
    /\ run[j].pc = "main_finally"
    /\ files' = [files EXCEPT
                    ![j] = cleanup_files(@, {"download_path", "output_path"})]
    /\ SetRun(j, MainGoto(run[j], "done"))
    /\ UNCHANGED <<store, request, webhooks, reply, deleted, clock>>

\* main.py mounts the router of api/clip.py (line 54) next to its own (line
\* 393); the test-webhook endpoints keep no state and are all served here
NextMain ==
    \/ Tick
    \/ \E j \in JobIds : main_create_clip(j)
    \/ \E j \in JobIds : main_get_job_status(j)
    \/ \E j \in JobIds : main_delete_job(j)
    \/ main_test_webhook
    \/ test_webhook
    \/ routes_test_webhook
    \/ \E j \in JobIds : main_start(j)
    \/ \E j \in JobIds : main_update_job_status(j)
    \/ \E j \in JobIds : main_exec_download(j)
    \/ \E j \in JobIds : main_exec_trim(j)
    \/ \E j \in JobIds : main_get_youtube_service(j)
    \/ \E j \in JobIds : main_next_chunk(j)
    \/ \E j \in JobIds : main_webhook_completed(j)
    \/ \E j \in JobIds : main_webhook_failed(j)
    \/ \E j \in JobIds : main_finally(j)

SpecMain == Init /\ [][NextMain]_vars

----------------------------------------------------------------------------
(* The pipeline of services/clipper.py: module-level functions over the     *)
(* jobs table.  Positions "Knnn" are the update_job_record calls at         *)
(* clipper.py line nnn; its stage functions are synchronous.                *)

ClipperCallSites == {"K295", "K299", "K303", "K307", "K328", "K338"}

\* download_video(url, output, max_retries=3) and its browsers list
MaxRetries == 3
Browsers == <<"chrome", "firefox", "edge", "safari">>

LastBrowserTryOneMore == (MaxRetries + 1) * Len(Browsers)

\* invocations 0 .. LastBrowserTry-1 use a browser's cookies, the one after
\* them is the cookie-less fallback
LastBrowserTry == MaxRetries * Len(Browsers)
ClipperStrategy(i) ==
    IF i < LastBrowserTry THEN Browsers[(i % Len(Browsers)) + 1] ELSE "none"

\* create_job_record (lines 63-71)
create_job_record(st, job_id, now) ==
    (job_id :>
        [job_id |-> job_id, status |-> "pending", progress |-> "Job created",
         video_id |-> NULL, video_url |-> NULL, error |-> NULL,
         created_at |-> IsoFormat(now), completed_at |-> NULL]) @@ st

\* update_job_record line 76: no URL without a video_id
ClipperVideoUrl(video_id) ==
    IF video_id # NULL THEN "https://youtube.com/watch?v=" \o video_id
    ELSE NULL

\* update_job_record (lines 74-83): every column but job_id and created_at
\* is overwritten; no row, nothing changes
update_job_record(st, job_id, a, now) ==
    IF job_id \in DOMAIN st
    THEN [st EXCEPT ![job_id] =
            [@ EXCEPT !.status = a.status,
                      !.progress = a.progress,
                      !.video_id = a.video_id,
                      !.video_url = ClipperVideoUrl(a.video_id),
                      !.error = a.error,
                      !.completed_at =
                          IF a.status \in TerminalStatuses
                          THEN IsoFormat(now) ELSE NULL]]
    ELSE st

\* the arguments of the update_job_record call at r.pc
ClipperArgs(r) ==
    CASE r.pc = "K295" ->
            [status |-> "processing", progress |-> "Downloading video...",
             video_id |-> NULL, error |-> NULL]
      [] r.pc = "K299" ->
            [status |-> "processing", progress |-> "Trimming video...",
             video_id |-> NULL, error |-> NULL]
      [] r.pc = "K303" ->
            [status |-> "processing",
             progress |-> "Authenticating to YouTube...",
             video_id |-> NULL, error |-> NULL]
      [] r.pc = "K307" ->
            [status |-> "processing",
             progress |-> "Uploading: " \o ToString(r.percent) \o "%",
             video_id |-> NULL, error |-> NULL]
      [] r.pc = "K328" ->
            [status |-> "completed", progress |-> "Upload successful!",
             video_id |-> r.video_id, error |-> NULL]
      [] r.pc = "K338" ->
            [status |-> "failed", progress |-> "Error occurred",
             video_id |-> NULL, error |-> r.error_msg]

ClipperGoto(r, l) == [r EXCEPT !.pc = l]

\* except Exception of process_clip_job (lines 336-338): error_msg = str(e)
ClipperExcept(r, msg, stage) ==
    ClipperGoto([r EXCEPT !.error_msg = msg, !.failed = @ \cup stage], "K338")

\* lines 313-315: a supplied thumbnail_url is fetched first
ThumbnailEntry(r, req) ==
    ClipperGoto(r, IF req.thumbnail_url THEN "K_download_image"
                   ELSE "K_generate_thumbnail")

\* where control goes after the update_job_record call at r.pc
ClipperReturned(r, req) ==
    CASE r.pc = "K295" ->
            ClipperGoto([r EXCEPT !.stages = Append(@, "download"), !.i = 0],
                        "K_download")
      [] r.pc = "K299" -> ClipperGoto(r, "K_trim")
      [] r.pc = "K303" -> ClipperGoto(r, "K_get_youtube_service")
      [] r.pc = "K307" -> ClipperGoto(r, "K_next_chunk")
      [] r.pc = "K328" ->
            IF req.configured THEN ClipperGoto(r, "K_webhook_completed")
            ELSE ClipperGoto([r EXCEPT !.ret = "None"], "K_finally")
      [] r.pc = "K338" ->
            IF req.configured THEN ClipperGoto(r, "K_webhook_failed")
            ELSE ClipperGoto([r EXCEPT !.ret = "None"], "K_finally")

\* history: the cookie source of invocation r.i of the download tool
ClipperAttempted(r) ==
    [r EXCEPT !.attempts = Append(@, ClipperStrategy(r.i))]

\* send_webhook of clipper.py (lines 139-148): posts, swallows the failure
clipper_send_webhook(log, event, ok) == Append(log, Delivery(event, ok))

\* submission of a job to this pipeline: the record is created pending and
\* process_clip_job is scheduled with the request
clipper_submit(j) ==
    /\ run[j].pc = "idle"
    /\ \E w \in WebhookChoices, t \in BOOLEAN :
          request' = [request EXCEPT
                          ![j] = [configured |-> w.configured,
                                  events |-> w.events, thumbnail_url |-> t]]
    /\ store' = create_job_record(store, j, clock)
    /\ SetRun(j, ClipperGoto(Submitted(run[j], IsoFormat(clock)), "K295"))
    /\ reply' = [op |-> "create_clip", job_id |-> j, code |-> 200,
                 status |-> "pending", created_at |-> IsoFormat(clock)]
    /\ UNCHANGED <<files, webhooks, deleted, clock>>

\* one update_job_record call of process_clip_job
clipper_update_job_record(j) ==
    /\ run[j].pc \in ClipperCallSites
    /\ store' = update_job_record(store, j, ClipperArgs(run[j]), clock)
    /\ SetRun(j, ClipperReturned(
                    Wrote(run[j], store, j, ClipperArgs(run[j]).status),
                    request[j]))
    /\ UNCHANGED <<request, files, webhooks, reply, deleted, clock>>

\* download_video (lines 151-198): one invocation of the download tool;
\* a browser try that fails moves on, the fallback's result is returned
clipper_download_video(j) ==
    /\ run[j].pc = "K_download"
    /\ \/ /\ SetRun(j, ClipperGoto([ClipperAttempted(run[j]) EXCEPT
                                        !.stages = Append(@, "trim")], "K299"))
          /\ files' = [files EXCEPT ![j] = @ \cup {"temp_video"}]
       \/ /\ run[j].i < LastBrowserTry
          /\ SetRun(j, [ToolFailed(ClipperAttempted(run[j])) EXCEPT
                            !.i = @ + 1])
          /\ UNCHANGED files
       \/ /\ run[j].i = LastBrowserTry
          /\ \E msg \in {"Failed to download video", "e"} :
                SetRun(j, ClipperExcept(ToolFailed(ClipperAttempted(run[j])),
                                        msg, {"download"}))
          /\ UNCHANGED files
    /\ UNCHANGED <<store, request, webhooks, reply, deleted, clock>>

\* trim_video (lines 201-202), then lines 300-301
clipper_trim_video(j) ==
    /\ run[j].pc = "K_trim"
    /\ \/ /\ SetRun(j, ClipperGoto(run[j], "K303"))
          /\ files' = [files EXCEPT ![j] = @ \cup {"clipped_video"}]
       \/ /\ \E msg \in {"Failed to trim video", "e"} :
                SetRun(j, ClipperExcept(ToolFailed(run[j]), msg, {"trim"}))
          /\ \E partial \in SUBSET {"clipped_video"} :
                files' = [files EXCEPT ![j] = @ \cup partial]
    /\ UNCHANGED <<store, request, webhooks, reply, deleted, clock>>

\* line 304: youtube = get_youtube_service()
clipper_get_youtube_service(j) ==
    /\ run[j].pc = "K_get_youtube_service"
    /\ \/ SetRun(j, ClipperGoto([run[j] EXCEPT !.stages = Append(@, "upload")],
                                "K_next_chunk"))
       \/ SetRun(j, ClipperExcept(ToolFailed(run[j]), "e", {"upload"}))
    /\ UNCHANGED <<store, request, files, webhooks, reply, deleted, clock>>

\* upload_video (lines 275-287): one request.next_chunk(); then line 310
clipper_next_chunk(j) ==
    /\ run[j].pc = "K_next_chunk"
    /\ \/ /\ run[j].chunks < MaxChunks
          /\ \E p \in Percents :
                SetRun(j, ClipperGoto([run[j] EXCEPT !.percent = p,
                                                     !.chunks = @ + 1],
                                      "K307"))
       \/ SetRun(j, ThumbnailEntry([run[j] EXCEPT !.video_id = "vid"],
                                   request[j]))
       \/ SetRun(j, ThumbnailEntry(ToolFailed(run[j]), request[j]))
       \/ \E msg \in {"Upload failed: e", "e"} :
             SetRun(j, ClipperExcept(ToolFailed(run[j]), msg, {"upload"}))
    /\ UNCHANGED <<store, request, files, webhooks, reply, deleted, clock>>

\* download_image (lines 205-211): the bytes, or None on any failure
clipper_download_image(j) ==
    /\ run[j].pc = "K_download_image"
    /\ \/ SetRun(j, ClipperGoto([run[j] EXCEPT !.thumb_bytes = TRUE],
                                "K_save_image_bytes"))
       \/ SetRun(j, ClipperGoto(run[j], "K_generate_thumbnail"))
    /\ UNCHANGED <<store, request, files, webhooks, reply, deleted, clock>>

\* save_image_bytes (lines 248-261) writes {job_id}_thumb.jpg
clipper_save_image_bytes(j) ==
    /\ run[j].pc = "K_save_image_bytes"
    /\ \/ /\ SetRun(j, ClipperGoto(run[j], "K_set_thumbnail"))
          /\ files' = [files EXCEPT ![j] = @ \cup {"thumbnail_path"}]
       \/ /\ SetRun(j, ClipperGoto(run[j], "K328"))
          /\ \E partial \in SUBSET {"thumbnail_path"} :
                files' = [files EXCEPT ![j] = @ \cup partial]
    /\ UNCHANGED <<store, request, webhooks, reply, deleted, clock>>

\* generate_thumbnail_from_video (lines 214-245): a frame is extracted to
\* {job_id}_thumb.jpg.png and re-encoded to {job_id}_thumb.jpg
clipper_generate_thumbnail(j) ==
    /\ run[j].pc = "K_generate_thumbnail"
    /\ \/ /\ SetRun(j, ClipperGoto(run[j], "K_set_thumbnail"))
          /\ files' = [files EXCEPT ![j] = @ \cup {"thumbnail_path"}]
       \/ /\ SetRun(j, ClipperGoto(run[j], "K328"))
          /\ \E partial \in {{}, {"tmp_png"}, {"thumbnail_path"}} :
                files' = [files EXCEPT ![j] = @ \cup partial]
    /\ UNCHANGED <<store, request, webhooks, reply, deleted, clock>>

\* set_thumbnail (lines 264-272) catches HttpError only
clipper_set_thumbnail(j) ==
    /\ run[j].pc = "K_set_thumbnail"
    /\ \/ SetRun(j, ClipperGoto(run[j], "K328"))
       \/ SetRun(j, ClipperExcept(run[j], "e", {"thumbnail"}))
    /\ UNCHANGED <<store, request, files, webhooks, reply, deleted, clock>>

\* lines 331-334: completed webhook
clipper_webhook_completed(j) ==
    /\ run[j].pc = "K_webhook_completed"
    /\ \E ok \in BOOLEAN :
          webhooks' = [webhooks EXCEPT
                          ![j] = clipper_send_webhook(@, "completed", ok)]
    /\ SetRun(j, ClipperGoto([run[j] EXCEPT !.ret = "None"], "K_finally"))
    /\ UNCHANGED <<store, request, files, reply, deleted, clock>>

\* lines 339-342: failed webhook
clipper_webhook_failed(j) ==
    /\ run[j].pc = "K_webhook_failed"
    /\ \E ok \in BOOLEAN :
          webhooks' = [webhooks EXCEPT
                          ![j] = clipper_send_webhook(@, "failed", ok)]
    /\ SetRun(j, ClipperGoto([run[j] EXCEPT !.ret = "None"], "K_finally"))
    /\ UNCHANGED <<store, request, files, reply, deleted, clock>>

\* lines 343-349: finally: temp_video and clipped_video are removed
clipper_finally(j) ==
    /\ run[j].pc = "K_finally"
    /\ files' = [files EXCEPT
                    ![j] = cleanup_files(@, {"temp_video", "clipped_video"})]
    /\ SetRun(j, ClipperGoto(run[j], "done"))
    /\ UNCHANGED <<store, request, webhooks, reply, deleted, clock>>

NextClipper ==
    \/ Tick
    \/ \E j \in JobIds : clipper_submit(j)
    \/ \E j \in JobIds : clipper_update_job_record(j)
    \/ \E j \in JobIds : clipper_download_video(j)
    \/ \E j \in JobIds : clipper_trim_video(j)
    \/ \E j \in JobIds : clipper_get_youtube_service(j)
    \/ \E j \in JobIds : clipper_next_chunk(j)
    \/ \E j \in JobIds : clipper_download_image(j)
    \/ \E j \in JobIds : clipper_save_image_bytes(j)
    \/ \E j \in JobIds : clipper_generate_thumbnail(j)
    \/ \E j \in JobIds : clipper_set_thumbnail(j)
    \/ \E j \in JobIds : clipper_webhook_completed(j)
    \/ \E j \in JobIds : clipper_webhook_failed(j)
    \/ \E j \in JobIds : clipper_finally(j)

SpecClipper == Init /\ [][NextClipper]_vars

\* the event loop keeps running the steps of a scheduled background task
OrchestratorStep(j) ==
    \/ StartTask(j)
    \/ update_job_status_get(j)
    \/ update_job_status_create(j)
    \/ update_job_status_update(j)
    \/ update_job_status_return(j)
    \/ exec_download(j)
    \/ exec_trim(j)
    \/ get_youtube_service(j)
    \/ next_chunk(j)
    \/ webhook_completed(j)
    \/ webhook_failed(j)
    \/ finally_cleanup(j)

FairSpec == Spec /\ \A j \in JobIds : WF_vars(OrchestratorStep(j))

----------------------------------------------------------------------------
(* Properties of the job lifecycle *)

Stored(j) == HasRecord(store, j)
Ended(j) == run[j].pc = "done"

SpecOrder == <<"pending", "downloading", "trimming", "uploading", "completed">>
CodeOrder ==
    <<"pending", "processing", "downloading", "trimming", "uploading",
      "completed">>

InOrder(order, s) == \E k \in 1..Len(order) : order[k] = s
Pos(order, s) == CHOOSE k \in 1..Len(order) : order[k] = s

\* s -> t keeps the status, moves it later in the order, or fails a live job
MovesForward(order, s, t) ==
    \/ s = t
    \/ /\ InOrder(order, s) /\ InOrder(order, t)
       /\ Pos(order, s) < Pos(order, t)
    \/ /\ t = "failed"
       /\ InOrder(order, s) /\ s # "completed"

C2_CompletedAtIffTerminal ==
    \A j \in DOMAIN store :
        (store[j].completed_at # NULL)
            <=> (store[j].status \in TerminalStatuses)

\* a failed job carrying its completion time
C2_Witness ==
    \E j \in DOMAIN store :
        store[j].status = "failed" /\ store[j].completed_at # NULL

\* C3 as stated: every stored status is one of pending, downloading,
\* trimming, uploading, completed, failed.
C3_StatusInSpecEnumeration ==
    \A j \in DOMAIN store : store[j].status \in SpecStatuses

\* C3 as amended: every stored status is one of pending, processing,
\* downloading, trimming, uploading, completed, failed.
C3_StatusInCodeEnumeration ==
    \A j \in DOMAIN store :
        store[j].status \in SpecStatuses \cup {"processing"}

\* the status written by the first statement of process_clip_job
C3_Witness == \E j \in DOMAIN store : store[j].status = "processing"

C5_VideoSetIffCompleted ==
    \A j \in DOMAIN store :
        (store[j].video_id # NULL /\ store[j].video_url # NULL)
            <=> (store[j].status = "completed")

\* C6: a stored job's error is non-empty if and only if its status is
\* failed.
C6_ErrorIffFailed ==
    \A j \in DOMAIN store :
        (store[j].error # NULL /\ store[j].error # "")
            <=> (store[j].status = "failed")

\* a job failed by its last download strategy, carrying that diagnostic
C6_Witness ==
    \E j \in DOMAIN store :
        /\ store[j].status = "failed"
        /\ store[j].error = StrategyFailedCode(NumStrategies)

\* C7: after a failed acquisition neither transform nor publish is invoked,
\* after a failed transform publish is not invoked, and a run in which a
\* stage failed ends with the stored job failed and carrying the reason.
C7_StageFailureHalts ==
    \A j \in JobIds :
        /\ "download" \in run[j].failed => run[j].stages = <<"download">>
        /\ "trim" \in run[j].failed => run[j].stages = <<"download", "trim">>
        /\ (run[j].failed # {} /\ Ended(j) /\ Stored(j))
            => (store[j].status = "failed" /\ store[j].error # NULL)

\* a run ended by a failed transform, with the failure stored
C7_Witness ==
    \E j \in JobIds :
        /\ "trim" \in run[j].failed /\ Ended(j)
        /\ Stored(j) /\ store[j].status = "failed"
        /\ "download_path" \notin files[j]

\* C8: every started run ends, and when it has ended the stored job is
\* completed or failed, never pending, downloading, trimming or uploading.
C8_RunEndsTerminal ==
    \A j \in JobIds :
        (run[j].pc = "L436")
            ~> (Ended(j)
                /\ (Stored(j) => store[j].status \in TerminalStatuses))

\* a run that returned True and left the job completed
C8_Witness ==
    \E j \in JobIds :
        /\ Ended(j) /\ run[j].ret = "True"
        /\ Stored(j) /\ store[j].status = "completed"

\* C9: no exception propagates out of process_clip_job.
C9_NoExceptionEscapes == \A j \in JobIds : run[j].ret # "raised"

\* C10: a Get status answered after Submit and before any Delete of that
\* job returns the job, not the not-found signal.
C10_GetAfterSubmitFinds ==
    \A j \in JobIds :
        (reply.op = "get_job_status" /\ reply.job_id = j /\ j \notin deleted)
            => reply.code = 200

\* C11: a Delete of a job that is not stored answers not-found and leaves
\* the store unchanged; a Delete of a stored job removes it, and from then
\* on the job is not stored, so that a Get status answers not-found.
C11_DeleteRemovesForGood ==
    [][\A j \in JobIds :
          /\ delete_job_endpoint(j) =>
                IF Stored(j)
                THEN reply'.code = 200 /\ ~HasRecord(store', j)
                ELSE reply'.code = 404 /\ store' = store
          /\ (/\ reply.op = "delete_job" /\ reply.job_id = j
              /\ reply.code = 200
              /\ reply' = reply)
             => GetReply(store', j).code = 404]_vars

\* C12: a run in which every external invocation succeeded runs download
\* once, then trim, then upload, and returns True, whether or not a Delete
\* of its job was answered while it ran.
C12_DeleteDoesNotDisturbRun ==
    \A j \in JobIds :
        (Ended(j) /\ ~run[j].toolfail)
            => /\ run[j].ret = "True"
               /\ run[j].stages = <<"download", "trim", "upload">>
               /\ run[j].attempts = <<1>>

\* C13: a job record comes into existence only in the step that answers
\* its submission; no update of an absent job_id creates one.
C13_OnlySubmitCreates ==
    [][\A j \in JobIds :
          (~Stored(j) /\ HasRecord(store', j))
          => (run[j].pc = "idle" /\ reply'.op = "create_clip")]_vars

\* C14: whenever Get status answers a record, its created_at is the
\* created_at that Submit answered for that job.
C14_CreatedAtAsSubmitted ==
    \A j \in JobIds :
        (reply.op = "get_job_status" /\ reply.job_id = j /\ reply.code = 200)
            => reply.created_at = run[j].submit_created_at

\* the positions in a job's delivery log that carry the given event
DeliveriesOf(j, event) ==
    {k \in 1..Len(webhooks[j]) : webhooks[j][k].event = event}

\* C15: for a job whose webhook configuration subscribes to failed, a run
\* that ended with the job failed made exactly one delivery attempt with
\* event failed, and a run that ended with the job completed made none.
C15_FailedRunNotifiesOnce ==
    \A j \in JobIds :
        (/\ Ended(j) /\ Stored(j)
         /\ request[j].configured /\ "failed" \in request[j].events)
            => /\ store[j].status = "failed"
                    => Cardinality(DeliveriesOf(j, "failed")) = 1
               /\ store[j].status = "completed"
                    => Cardinality(DeliveriesOf(j, "failed")) = 0

\* C16: every delivery attempt of a job carries an event its webhook
\* configuration subscribes to.
C16_OnlySubscribedEvents ==
    \A j \in JobIds :
        \A k \in 1..Len(webhooks[j]) :
            webhooks[j][k].event \in request[j].events

\* C17: a job has at most one delivery attempt, it is never repeated, and
\* whatever its outcome the stored record keeps the status the attempt
\* announced: a failed completed delivery does not make the job failed.
C17_DeliveryLeavesRecord ==
    \A j \in JobIds :
        /\ Len(webhooks[j]) <= 1
        /\ \A k \in 1..Len(webhooks[j]) :
              Stored(j) => store[j].status = webhooks[j][k].event

\* a run ended after its completed delivery failed; the job is completed
C17_Witness ==
    \E j \in JobIds :
        /\ Ended(j) /\ Stored(j)
        /\ store[j].status = "completed"
        /\ webhooks[j] = <<Delivery("completed", FALSE)>>

\* C18: a test-webhook answer reports success exactly when the endpoint
\* made a POST and the POST was answered 2xx; it reports failure when the
\* POST failed or no POST was made.
C18_TestReportsOutcome ==
    reply.op = "test_webhook"
        => (reply.success <=> \E k \in 1..Len(reply.posts) : reply.posts[k].ok)

C20_ThumbnailRemovedWithTheRest ==
    \A j \in JobIds :
        Ended(j) =>
            files[j] \cap {"temp_video", "clipped_video", "thumbnail_path"}
                = {}

\* C21: a webhook is attempted only after the run has written the terminal
\* status it announces, and while the working files are still untouched;
\* working files are removed only in the step that ends the run, and after
\* that step no webhook is attempted and no file changes.
C21_TerminalThenWebhookThenRelease ==
    [][\A j \in JobIds :
          /\ webhooks'[j] # webhooks[j]
                => /\ run[j].written = webhooks'[j][Len(webhooks'[j])].event
                   /\ files'[j] = files[j]
                   /\ ~Ended(j) /\ run'[j].pc # "done"
          /\ (files'[j] # files[j] /\ files'[j] \subseteq files[j])
                => (~Ended(j) /\ run'[j].pc = "done")
          /\ Ended(j) => (webhooks'[j] = webhooks[j] /\ files'[j] = files[j])
      ]_vars

\* a run wrote failed, attempted the failed delivery and then released the
\* files its download and trim had produced
C21_Witness ==
    \E j \in JobIds :
        /\ Ended(j) /\ run[j].written = "failed"
        /\ Len(webhooks[j]) = 1 /\ webhooks[j][1].event = "failed"
        /\ "upload" \in run[j].failed
        /\ files[j] = {}

\* the sequence <<1, 2, ..., k>>
UpTo(k) == [n \in 1..k |-> n]

\* C22: download_video attempts its strategies in list order, each under
\* the progress text of its ordinal, and stops at the first that exits
\* with return code 0: no strategy is started after one has exited 0, and
\* once the stage is over after such an exit it has not reported failure.
C22_StopsAtFirstSuccess ==
    \A j \in JobIds :
        /\ run[j].attempts = UpTo(Len(run[j].attempts))
        /\ (run[j].pc = "exec_download" /\ Stored(j))
                => store[j].progress = TryingStrategy(run[j].i)
        /\ run[j].pc = "exec_download" => ~run[j].exit0
        /\ (run[j].exit0 /\ Ended(j)) => "download" \notin run[j].failed

\* C23: the download failure is reported only after the last strategy has
\* been tried, and when every strategy has failed the stage returns
\* failure and the job is failed with the last strategy's diagnostic as
\* its error.
C23_AllFailedReportsLast ==
    \A j \in JobIds :
        /\ (Stored(j) /\ store[j].progress = "All download strategies failed")
                => /\ store[j].status = "failed"
                   /\ store[j].error \in {StrategyFailedCode(NumStrategies),
                                          StrategyFailedExc(NumStrategies)}
                   /\ run[j].attempts # <<>>
                   /\ run[j].attempts[Len(run[j].attempts)] = NumStrategies
        /\ (Ended(j) /\ run[j].attempts = UpTo(NumStrategies) /\ ~run[j].exit0)
                => /\ run[j].ret = "False"
                   /\ run[j].failed = {"download"}
                   /\ Stored(j) =>
                        /\ store[j].status = "failed"
                        /\ store[j].error \in
                                {StrategyFailedCode(NumStrategies),
                                 StrategyFailedExc(NumStrategies)}

\* how often x occurs in a sequence
Occurrences(seq, x) == Cardinality({k \in 1..Len(seq) : seq[k] = x})

\* C24: no download strategy is attempted more than once for a job, so a
\* job makes at most as many download invocations as there are strategies.
C24_NoStrategyTwice ==
    \A j \in JobIds :
        \A k \in 1..Len(run[j].attempts) :
            Occurrences(run[j].attempts, run[j].attempts[k]) = 1

\* C24 as amended: download_video of services/clipper.py attempts each
\* browser's cookies at most max_retries times and the cookie-less fallback
\* at most once, the fallback last.
C24_RetriesBounded ==
    \A j \in JobIds :
        /\ \A b \in 1..Len(Browsers) :
              Occurrences(run[j].attempts, Browsers[b]) <= MaxRetries
        /\ Occurrences(run[j].attempts, "none") <= 1
        /\ \A k \in 1..Len(run[j].attempts) :
              run[j].attempts[k] = "none" => k = Len(run[j].attempts)

\* every browser was tried max_retries times and then the fallback ran
C24_Witness ==
    \E j \in JobIds :
        /\ Occurrences(run[j].attempts, "chrome") = MaxRetries
        /\ Occurrences(run[j].attempts, "none") = 1

----------------------------------------------------------------------------
(* _update_job_record as a function of the row it finds and the arguments  *)
(* it is given: the stored row and the arguments are drawn from samples.   *)

\* rows a jobs table can hold
SampleRows ==
    {[NewJobRow(j, 0) EXCEPT !.status = st, !.video_id = v,
                             !.video_url = IF v = NULL THEN NULL
                                           ELSE VideoUrl(v),
                             !.error = e, !.completed_at = c] :
        j \in JobIds, st \in {"pending", "uploading", "failed"},
        v \in {NULL, "vid"}, e \in {NULL, "old error"},
        c \in {NULL, IsoFormat(0)}}

\* keyword arguments of a call; NULL is an argument left at None
SampleArgs ==
    [status : {NULL, "uploading", "completed"},
     progress : {NULL, "p"},
     video_id : {NULL, "vid2"},
     video_url : {NULL, "url2"},
     error : {NULL, "new error"}]

InitUpdate ==
    /\ store \in {<<>>} \cup {(row.job_id :> row) : row \in SampleRows}
    /\ run = [j \in JobIds |-> IdleRun]
    /\ request = [j \in JobIds |-> NoWebhook]
    /\ files = [j \in JobIds |-> {}]
    /\ webhooks = [j \in JobIds |-> <<>>]
    /\ reply = NoReply
    /\ deleted = {}
    /\ clock = 0

\* one call self._update_job_record(job_id, **a)
update_record(j) ==
    /\ \E a \in SampleArgs :
          /\ store' = _update_job_record(store, j, a, clock)
          /\ reply' = [op |-> "_update_job_record", job_id |-> j, args |-> a]
    /\ UNCHANGED <<run, request, files, webhooks, deleted, clock>>

NextUpdate ==
    \/ Tick
    \/ \E j \in JobIds : update_record(j)

SpecUpdate == InitUpdate /\ [][NextUpdate]_vars

\* the columns _update_job_record can be given
GivenFields == {"status", "progress", "video_id", "video_url", "error"}

\* C25: an update creates and removes no row; in the row it changes, it
\* sets each field it is given, keeps every field it is not given, sets
\* completed_at only on a terminal status and never changes job_id or
\* created_at.
C25_UpdateKeepsOtherFields ==
    [][/\ DOMAIN store' = DOMAIN store
       /\ \A j \in DOMAIN store :
            store'[j] # store[j]
            => /\ \A f \in GivenFields :
                     store'[j][f] = IF reply'.args[f] # NULL
                                    THEN reply'.args[f] ELSE store[j][f]
               /\ store'[j].job_id = store[j].job_id
               /\ store'[j].created_at = store[j].created_at
               /\ store'[j].completed_at =
                     IF reply'.args.status \in TerminalStatuses
                     THEN IsoFormat(clock) ELSE store[j].completed_at]_vars

\* an update given only a status and a progress has acted on a row that
\* held a video_id, an error and a completed_at: they are still there
C25_Witness ==
    \E j \in JobIds :
        /\ Stored(j) /\ reply.op = "_update_job_record"
        /\ reply.args = [NoArgs EXCEPT !.status = "uploading", !.progress = "p"]
        /\ store[j].status = "uploading" /\ store[j].progress = "p"
        /\ store[j].video_id = "vid" /\ store[j].error = "old error"
        /\ store[j].completed_at = IsoFormat(0) /\ clock = 1

\* C26: in process_clip_job of services/clipper.py, a run that got a video
\* id from the upload ends with the job completed under that video id,
\* whatever happens in the thumbnail steps.
C26_ThumbnailFailureNotFatal ==
    \A j \in JobIds :
        (Ended(j) /\ run[j].video_id # NULL)
        => /\ Stored(j)
           /\ store[j].status = "completed"
           /\ store[j].video_id = run[j].video_id

\* C27: in process_clip_job of services/clipper.py, set_thumbnail is never
\* invoked in a run whose request supplied a thumbnail URL that could not
\* be fetched.
C27_FailedFetchSetsNoThumbnail ==
    [][\A j \in JobIds :
          (run[j].pc = "K_set_thumbnail" /\ run'[j] # run[j])
          => (request[j].thumbnail_url => run[j].thumb_bytes)]_vars

----------------------------------------------------------------------------
(* Two jobs run by one ClipperService: both submissions have been          *)
(* answered, and the event loop interleaves the steps of the two tasks.    *)
(* The working files of a job are the paths process_clip_job derives from  *)
(* its job_id (lines 438-439); files[j] holds those of job j.              *)

JobPair == {"j1", "j2"}

\* the webhook configurations of the two requests
PairRequests ==
    {NoWebhook, [configured |-> TRUE, events |-> {"completed", "failed"}]}

InitPair ==
    /\ store = <<>>
    /\ run = [j \in JobPair |->
                 Goto(Submitted(IdleRun, IsoFormat(0)), "scheduled")]
    /\ request \in [JobPair -> PairRequests]
    /\ files = [j \in JobPair |-> {}]
    /\ webhooks = [j \in JobPair |-> <<>>]
    /\ reply = [op |-> "create_clip", job_id |-> "j2", code |-> 200,
                status |-> "pending", created_at |-> IsoFormat(0)]
    /\ deleted = {}
    /\ clock = 0

NextPair == \E j \in JobPair : OrchestratorStep(j)

SpecPair == InitPair /\ [][NextPair]_vars

\* C28: a step of one job's orchestrator leaves the record, the working
\* files and the webhook log of the other job as they were.
C28_JobsDoNotInterfere ==
    [][\A a \in JobPair, b \in JobPair :
          (a # b /\ run'[a] # run[a])
          => /\ run'[b] = run[b]
             /\ _get_job_record(store', b) = _get_job_record(store, b)
             /\ files'[b] = files[b]
             /\ webhooks'[b] = webhooks[b]]_vars

\* job j1 has ended completed and released its files while job j2 is still
\* uploading, with its record and both its working files in place
C28_Witness ==
    /\ run["j1"].pc = "done" /\ Stored("j1")
    /\ store["j1"].status = "completed" /\ files["j1"] = {}
    /\ Stored("j2") /\ store["j2"].status = "uploading"
    /\ store["j2"].completed_at = NULL
    /\ files["j2"] = {"download_path", "output_path"}

----------------------------------------------------------------------------
(* GET /download-audio of api/endpoints.py.  An Optional[int] query        *)
(* parameter is <<>> for None and <<n>> for the integer n; positions       *)
(* "Annn" are at endpoints.py line nnn.  files[j] holds "temp_dir", the    *)
(* "audio_file" downloaded into it and the "dest_path" it is moved to.     *)

Times == {<<>>, <<0 - 1>>, <<0>>, <<1>>, <<2>>}

AudioQueries ==
    [start_time : Times, end_time : Times, background_tasks : BOOLEAN]

\* lines 127-132: the three checks that raise HTTPException(422)
InvalidRange(q) ==
    \/ q.start_time # <<>> /\ q.start_time[1] < 0
    \/ q.end_time # <<>> /\ q.end_time[1] <= 0
    \/ /\ q.start_time # <<>> /\ q.end_time # <<>>
       /\ q.end_time[1] <= q.start_time[1]

\* lines 183-188: whatever the download block raises becomes an
\* HTTPException(400)
InnerExcept(e) == 400

\* lines 190-195: except Exception catches what the try block raises,
\* HTTPException included, and raises HTTPException(500)
OuterExcept(e) == 500

IdleAudio ==
    [pc |-> "idle", code |-> 0, invoked |-> FALSE, scheduled |-> FALSE]

InitAudio ==
    /\ store = <<>>
    /\ run = [j \in JobIds |-> IdleAudio]
    /\ request = [j \in JobIds |-> NoWebhook]
    /\ files = [j \in JobIds |-> {}]
    /\ webhooks = [j \in JobIds |-> <<>>]
    /\ reply = NoReply
    /\ deleted = {}
    /\ clock = 0

\* the exception e leaves the try block: line 190, then the finally clause
AudioRaise(r, e) == [r EXCEPT !.pc = "A196", !.code = OuterExcept(e)]

\* lines 122-132: mkdtemp, then the validation of the time range
download_audio_endpoint(j) ==
    /\ run[j].pc = "idle"
    /\ \E q \in AudioQueries :
          /\ request' = [request EXCEPT ![j] = q]
          /\ SetRun(j, IF InvalidRange(q) THEN AudioRaise(run[j], 422)
                       ELSE [run[j] EXCEPT !.pc = "A139"])
    /\ files' = [files EXCEPT ![j] = @ \cup {"temp_dir"}]
    /\ UNCHANGED <<store, webhooks, reply, deleted, clock>>

\* lines 139-147: download_audio_service and the check that its file exists
download_audio_service(j) ==
    /\ run[j].pc = "A139"
    /\ \/ /\ SetRun(j, [run[j] EXCEPT !.invoked = TRUE, !.pc = "A161"])
          /\ files' = [files EXCEPT ![j] = @ \cup {"audio_file"}]
       \/ /\ \E e \in {"download error", "FileNotFoundError"} :
                SetRun(j, AudioRaise([run[j] EXCEPT !.invoked = TRUE],
                                     InnerExcept(e)))
          /\ UNCHANGED files
    /\ UNCHANGED <<store, request, webhooks, reply, deleted, clock>>

\* lines 152-181: the file is moved to its destination, the response is
\* built and cleanup is added to the background tasks, if there are any
audio_move(j) ==
    /\ run[j].pc = "A161"
    /\ \/ /\ SetRun(j, [run[j] EXCEPT
                            !.pc = "A196", !.code = 200,
                            !.scheduled = request[j].background_tasks])
          /\ files' = [files EXCEPT
                          ![j] = (@ \ {"audio_file"}) \cup {"dest_path"}]
       \/ /\ SetRun(j, AudioRaise(run[j], InnerExcept("move error")))
          /\ UNCHANGED files
    /\ UNCHANGED <<store, request, webhooks, reply, deleted, clock>>

\* shutil.rmtree(temp_dir, ignore_errors=True), taken to remove the tree
rmtree(fs) == fs \ {"temp_dir", "audio_file"}

\* lines 196-203: finally, then the response or the HTTPException is
\* answered
audio_finally(j) ==
    /\ run[j].pc = "A196"
    /\ files' = [files EXCEPT
                    ![j] = IF request[j].background_tasks THEN @
                           ELSE rmtree(@)]
    /\ SetRun(j, [run[j] EXCEPT !.pc = "responded"])
    /\ reply' = [op |-> "download_audio", job_id |-> j,
                 code |-> run[j].code, status |-> NULL, created_at |-> NULL]
    /\ UNCHANGED <<store, request, webhooks, deleted, clock>>

\* lines 171-176: the background task cleanup, run after the response
cleanup(j) ==
    /\ run[j].pc = "responded"
    /\ run[j].scheduled
    /\ files' = [files EXCEPT ![j] = rmtree(@)]
    /\ SetRun(j, [run[j] EXCEPT !.scheduled = FALSE])
    /\ UNCHANGED <<store, request, webhooks, reply, deleted, clock>>

NextAudio ==
    \/ Tick
    \/ \E j \in JobIds : download_audio_endpoint(j)
    \/ \E j \in JobIds : download_audio_service(j)
    \/ \E j \in JobIds : audio_move(j)
    \/ \E j \in JobIds : audio_finally(j)
    \/ \E j \in JobIds : cleanup(j)

SpecAudio == InitAudio /\ [][NextAudio]_vars

\* the endpoint has answered and no background task of it is left to run
AudioOver(j) == run[j].pc = "responded" /\ ~run[j].scheduled

\* C29: a request with an invalid time range is answered 422, and the
\* audio download has not been invoked for it.
C29_InvalidRangeIs422 ==
    \A j \in JobIds :
        (run[j].pc = "responded" /\ InvalidRange(request[j]))
        => (reply.code = 422 /\ ~run[j].invoked)

\* C30: once an invocation of download_audio_endpoint is over, the
\* temporary directory it created is gone.
C30_TempDirRemoved ==
    \A j \in JobIds : AudioOver(j) => "temp_dir" \notin files[j]

====
